---- MODULE Spec2Model ----
(***************************************************************************)
(* Game evaluation pipeline of the chess analysis application.             *)
(*                                                                         *)
(*   client : evaluateGame      (src/src/lib/game-evaluator.ts)            *)
(*   relay  : chess-eval serve  (src/supabase/functions/chess-eval)        *)
(*                                                                         *)
(* Number conventions of the model (fixed point, exact integers):          *)
(*   winChance, winProbLoss : tenths of a percentage point  (50.5% = 505)  *)
(*   json.eval              : thousandths of a pawn         (0.3   = 300)  *)
(*   score, cpLoss          : centipawns, as in the code                   *)
(*   per-move accuracy      : thousandths of a point        (96    = 96000)*)
(*   accuracy.white/black   : whole points, as Math.round returns them     *)
(* A JavaScript number is a record [nan, v]: NaN is [nan |-> TRUE], and a  *)
(* read of a field an object does not have (undefined) enters arithmetic   *)
(* as NaN, as it does in JavaScript.                                       *)
(* Array indices: the code is 0-based, sequences here are 1-based, so the  *)
(* code's allResults[k] is allResults[k + 1] below.  A position's FEN is   *)
(* represented by the index of the position in the game (0 = start).       *)
(***************************************************************************)
EXTENDS Integers, Sequences, FiniteSets, TLC

VARIABLES
    pgn,         \* the game record handed to evaluateGame
    evaluator,   \* what chess-api.com may answer during this run
    pc,          \* position of evaluateGame
    thrown,      \* message of the Error evaluateGame threw ("" while none)
    batchStart,  \* loop variable of the batch loop
    allResults,  \* results gathered from the batches so far
    progress,    \* the onProgress reports, in order
    returned,    \* <<GameEvaluation>> once evaluateGame returned, else <<>>
    req,         \* serve: the positions of the request being served
    i,           \* serve: loop index over req (0-based)
    attempt,     \* serve: attempt number for position i (0-based)
    lastError,   \* serve: lastError of position i
    results,     \* serve: results of the request so far
    calls,       \* serve: the evaluator calls made for the position last
                 \* worked on, each with its outcome and the wait after it
    faults,      \* number of failed evaluator calls so far in this run
    cancelAt,    \* how many positions had been answered when the caller
                 \* stopped wanting the result; -1 while it still wants it
    pause,       \* serve: the delay (ms) waited since the result of the
                 \* previous position was pushed
    sent,        \* the requests evaluateGame sent to the relay, in order
    \* the analysis flow that calls evaluateGame and then the AI
    flow,        \* "game" (GameAnalysisModal), "profile" (fetchAIAnalysis)
    fpc,         \* position of the flow
    username,    \* profile: the player's name
    games,       \* profile: the recent games handed over
    gameIdx,     \* profile: loop index over gamesToAnalyze
    perGame,     \* profile: results of batchEngineAnalysis
    engineData,  \* <<>> while null, else <<the engine data for the AI>>
    aiRequests,  \* the bodies of the AI requests sent, in order
    flowResult,  \* "" while running, then "analysis" or the error shown
    \* InsightsPanel
    mounted,     \* the panel is mounted
    inputs,      \* number of the (username, stats, games) now in the props
    runs,        \* the effect runs started so far
    analysis,    \* state analysis: 0 for null, else the inputs it analyses
    loading,     \* state loading
    error        \* state error: 0 for null, else the inputs whose run failed

pipelineVars == <<pgn, evaluator, pc, thrown, batchStart, allResults, progress,
                  returned, req, i, attempt, lastError, results, calls, faults,
                  cancelAt, pause, sent>>

flowVars == <<flow, fpc, username, games, gameIdx, perGame, engineData,
              aiRequests, flowResult>>

panelVars == <<mounted, inputs, runs, analysis, loading, error>>

\* what the evaluation pipeline leaves alone
uiVars == <<flowVars, panelVars>>

vars == <<pipelineVars, flowVars, panelVars>>

\* no analysis flow is running
FlowIdle ==
    /\ flow = "none"
    /\ fpc = "idle"
    /\ username = ""
    /\ games = <<>>
    /\ gameIdx = 0
    /\ perGame = <<>>
    /\ engineData = <<>>
    /\ aiRequests = <<>>
    /\ flowResult = ""

\* no insights panel is mounted
PanelIdle ==
    /\ mounted = FALSE
    /\ inputs = 0
    /\ runs = <<>>
    /\ analysis = 0
    /\ loading = FALSE
    /\ error = 0

---------------------------------------------------------------------------
(* Bounds of the model *)

\* Longest game whose evaluator answers are drawn from the rich set.
MaxPly == 3

\* Most evaluator calls that fail (error payload or thrown error) in one run.
MaxFaults == 4

(* Program constants *)

BATCH_SIZE == 15

\* for (let attempt = 0; attempt < 3; attempt++)
MaxAttempts == 3

\* setTimeout(r, 150) between two positions of a request, in milliseconds
PositionDelay == 150

---------------------------------------------------------------------------
(* JavaScript numbers *)

Num(v) == [nan |-> FALSE, v |-> v]
NaN == [nan |-> TRUE, v |-> 0]

Sub(a, b) == IF a.nan \/ b.nan THEN NaN ELSE Num(a.v - b.v)
Neg(a) == IF a.nan THEN NaN ELSE Num(0 - a.v)
\* Comparisons with NaN are false.
Ge(a, c) == ~a.nan /\ a.v >= c
Le(a, c) == ~a.nan /\ a.v <= c

Min(a, b) == IF a <= b THEN a ELSE b
Max(a, b) == IF a >= b THEN a ELSE b

\* Math.round(n / d) for d > 0: the nearest integer, ties towards +infinity.
MathRound(n, d) == (2 * n + d) \div (2 * d)

\* JavaScript truthiness of a string.
Truthy(s) == s # ""

---------------------------------------------------------------------------
(* The game record and the evaluator's possible answers *)

\* Game lengths that need more than one batch, or fill one exactly.
LongPlies == {BATCH_SIZE - 1, BATCH_SIZE, 2 * BATCH_SIZE}

Pgns ==
    {[parses |-> FALSE, plies |-> 0]}
    \cup {[parses |-> TRUE, plies |-> p] : p \in (0 .. MaxPly) \cup LongPlies}

\* history.length
Plies == pgn.plies

\* positions: the starting position, then the position after every ply.
Positions == [k \in 1 .. Plies + 1 |-> k - 1]

\* A successful answer of chess-api.com: eval in pawns, winChance in percent.
Eval(e, w) == [eval |-> e, winChance |-> w]

RichEvals ==
    { Eval(0, 500), Eval(105, 505), Eval(-105, 450), Eval(300, 510),
      Eval(-2000, 300) }

\* An error answer: json.type = "error"; a field that is absent is "".
ErrorJson(code, text) == [error |-> code, text |-> text]

\* An evaluator answers a position with any of `evals`, or, when
\* `byPosition` is not empty, with the evaluation it holds for that position.
RichEvaluator ==
    [ evals      |-> RichEvals,
      byPosition |-> <<>>,
      payloads   |-> { ErrorJson("HIGH_USAGE", ""), ErrorJson("", "Invalid FEN"),
                       ErrorJson("", "") },
      throws     |-> { "", "network" } ]

CoarseEvaluator ==
    [ evals      |-> { Eval(0, 500) },
      byPosition |-> <<>>,
      payloads   |-> { ErrorJson("HIGH_USAGE", "") },
      throws     |-> { "network" } ]

\* A game in which every ply throws away twenty points of win chance.
SwingingEvaluator ==
    [ evals      |-> {},
      byPosition |-> << Eval(0, 500), Eval(-2000, 300) >>,
      payloads   |-> {},
      throws     |-> {} ]

\* 1. e4 e5 with the evaluations 0.0, 0.3 and 0.2 pawns.
ScenarioEvaluator ==
    [ evals      |-> {},
      byPosition |-> << Eval(0, 500), Eval(300, 528), Eval(200, 518) >>,
      payloads   |-> { ErrorJson("HIGH_USAGE", "") },
      throws     |-> { "network" } ]

Evaluators(plies) ==
    IF plies > MaxPly THEN {CoarseEvaluator, SwingingEvaluator}
    ELSE IF plies = 2 THEN {RichEvaluator, ScenarioEvaluator}
    ELSE {RichEvaluator}

\* what chess-api.com may answer for the position `fen`
Answers(ev, fen) ==
    IF ev.byPosition = <<>> THEN ev.evals
    ELSE {ev.byPosition[(fen % Len(ev.byPosition)) + 1]}

---------------------------------------------------------------------------
(* chess-eval: one result per position *)

\* data = { eval, winChance, ... }; fen is kept to tell which position the
\* answer belongs to (the code's data object does not carry it).
Data(json, fen) == [eval |-> json.eval, winChance |-> json.winChance, fen |-> fen]

\* results.push(data || { error: lastError, fen })
Marker(err, fen) == [error |-> err, fen |-> fen]

\* lastError = json.text || json.error || "chess-api error"
ErrorText(json) ==
    IF Truthy(json.text) THEN json.text
    ELSE IF Truthy(json.error) THEN json.error
    ELSE "chess-api error"

IsMarker(r) == "error" \in DOMAIN r

\* evalData.error as a condition: the field exists and is a truthy string.
HasError(r) == IsMarker(r) /\ Truthy(r.error)

---------------------------------------------------------------------------
Init ==
    /\ pgn \in Pgns
    /\ evaluator \in Evaluators(pgn.plies)
    /\ pc = "start"
    /\ thrown = ""
    /\ batchStart = 0
    /\ allResults = <<>>
    /\ progress = <<>>
    /\ returned = <<>>
    /\ req = <<>>
    /\ i = 0
    /\ attempt = 0
    /\ lastError = ""
    /\ results = <<>>
    /\ calls = <<>>
    /\ faults = 0
    /\ cancelAt = -1
    /\ pause = 0
    /\ sent = <<>>
    /\ FlowIdle
    /\ PanelIdle

serveVars == <<req, i, attempt, lastError, results, calls, pause>>

\* evaluateGame that takes a record without moves for a game
LoadPgnAcceptsNoMoves ==
    /\ pc = "start"
    /\ IF ~pgn.parses
       THEN pc' = "failed" /\ thrown' = "Invalid PGN format"
       ELSE pc' = "batch" /\ thrown' = thrown
    /\ UNCHANGED <<pgn, evaluator, batchStart, allResults, progress, returned,
                   serveVars, faults, cancelAt, sent, uiVars>>

\* chess.loadPgn(pgn); history.length === 0
LoadPgn ==
    /\ pc = "start"
    /\ IF ~pgn.parses
       THEN pc' = "failed" /\ thrown' = "Invalid PGN format"
       ELSE IF Plies = 0
       THEN pc' = "failed" /\ thrown' = "No moves found in PGN"
       ELSE pc' = "batch" /\ thrown' = thrown
    /\ UNCHANGED <<pgn, evaluator, batchStart, allResults, progress, returned,
                   serveVars, faults, cancelAt, sent, uiVars>>

\* a slice that starts one position early
BatchFromPrevious(positions, start) ==
    SubSeq(positions, Max(start, 1), Min(start + BATCH_SIZE, Len(positions)))

\* positions.slice(batchStart, batchStart + BATCH_SIZE)
Batch(positions, start) ==
    SubSeq(positions, start + 1, Min(start + BATCH_SIZE, Len(positions)))

\* supabase.functions.invoke("chess-eval", { body: { positions: batch } })
InvokeBatch ==
    /\ pc = "batch"
    /\ batchStart < Len(Positions)
    /\ req' = Batch(Positions, batchStart)
    /\ i' = 0
    /\ attempt' = 0
    /\ lastError' = ""
    /\ results' = <<>>
    /\ calls' = <<>>
    /\ pause' = 0
    /\ sent' = Append(sent, Batch(Positions, batchStart))
    /\ pc' = "await"
    /\ UNCHANGED <<pgn, evaluator, thrown, batchStart, allResults, progress,
                   returned, faults, cancelAt, uiVars>>

\* a relay that leaves a failed position out of its answer
PushResultDropsFailed(res, r) == IF IsMarker(r) THEN res ELSE Append(res, r)

\* results.push(data || { error: lastError, fen })
PushResult(res, r) == Append(res, r)

\* One more call of fetch for position i: the first call of a position
\* starts its record, a later one extends it.
Logged(outcome, wait) ==
    (IF attempt = 0 THEN <<>> ELSE calls) \o <<[outcome |-> outcome, wait |-> wait]>>

\* if (i < positions.length - 1) await setTimeout(r, 150)
DelayAfter(k, n) == IF k < n - 1 THEN PositionDelay ELSE 0

\* The attempt loop of position i ended: push its result, go to the next.
NextPosition(r, outcome) ==
    /\ results' = PushResult(results, r)
    /\ i' = i + 1
    /\ attempt' = 0
    /\ lastError' = ""
    /\ calls' = Logged(outcome, 0)
    /\ pause' = DelayAfter(i, Len(req))

\* The loop goes round: the next attempt for the same position.
NextAttempt(err, outcome, wait) ==
    /\ attempt' = attempt + 1
    /\ lastError' = err
    /\ calls' = Logged(outcome, wait)
    /\ UNCHANGED <<results, i, pause>>

\* an attempt loop that never gives a position up
LoopContinuesAlways(att) == TRUE

\* an attempt loop that allows a single retry
LoopContinuesOnce(att) == att + 1 < MaxAttempts - 1

\* for (let attempt = 0; attempt < 3; attempt++): after attempt `att`
\* failed without a break, is there another attempt?
LoopContinues(att) == att + 1 < MaxAttempts

clientVars == <<pgn, evaluator, pc, thrown, batchStart, allResults, progress,
                returned, cancelAt, sent, uiVars>>

\* fetch answered with an evaluation
FetchOk ==
    /\ pc = "await"
    /\ i < Len(req)
    /\ \E json \in Answers(evaluator, req[i + 1]) :
          NextPosition(Data(json, req[i + 1]), "ok")
    /\ UNCHANGED <<clientVars, req, faults>>

\* if (json.error === "HIGH_USAGE" && attempt < 2) ... continue
RetriesOverload(json, att) == json.error = "HIGH_USAGE" /\ att < MaxAttempts - 1

\* a backoff that waits the same time before every retry
ThrowBackoffFlat(att) == IF att < MaxAttempts - 1 THEN 2000 ELSE 0

\* setTimeout(r, 3000 * (attempt + 1)), in milliseconds
OverloadBackoff(att) == 3000 * (att + 1)

\* if (attempt < 2) setTimeout(r, 2000 * (attempt + 1)), in milliseconds
ThrowBackoff(att) == IF att < MaxAttempts - 1 THEN 2000 * (att + 1) ELSE 0

\* fetch answered with json.type === "error"
FetchError ==
    /\ pc = "await"
    /\ i < Len(req)
    /\ faults < MaxFaults
    /\ faults' = faults + 1
    /\ \E json \in evaluator.payloads :
          IF RetriesOverload(json, attempt) /\ LoopContinues(attempt)
          THEN NextAttempt(ErrorText(json), "overload", OverloadBackoff(attempt))
          ELSE NextPosition(Marker(ErrorText(json), req[i + 1]),
                            IF json.error = "HIGH_USAGE" THEN "overload" ELSE "error")
    /\ UNCHANGED <<clientVars, req>>

\* fetch or res.json() threw: lastError = e.message, then the next attempt
FetchThrows ==
    /\ pc = "await"
    /\ i < Len(req)
    /\ faults < MaxFaults
    /\ faults' = faults + 1
    /\ \E msg \in evaluator.throws :
          IF LoopContinues(attempt)
          THEN NextAttempt(msg, "throw", ThrowBackoff(attempt))
          ELSE NextPosition(Marker(msg, req[i + 1]), "throw")
    /\ UNCHANGED <<clientVars, req>>

\* fetch never settles: the call has no timeout and no AbortSignal, so the
\* relay stays in its await and the client in its invoke
FetchHangs ==
    /\ pc = "await"
    /\ i < Len(req)
    /\ pc' = "hung"
    /\ UNCHANGED <<pgn, evaluator, thrown, batchStart, allResults, progress,
                   returned, serveVars, faults, cancelAt, sent, uiVars>>

\* a batch's results replace the list instead of extending it
GatherOverwrites(all, res) == res

\* allResults.push(...(data.results || []))
Gather(all, res) == all \o res

\* a report of the end of the batch, not clipped to the game
ReportBatchEnd(start) == <<start + BATCH_SIZE, Plies>>

\* onProgress(Math.min(done - 1, history.length), history.length)
Report(start) ==
    <<Min(Min(start + BATCH_SIZE, Plies + 1) - 1, Plies), Plies>>

\* serve answers { results }; evaluateGame gathers them and reports progress
BatchReturns ==
    /\ pc = "await"
    /\ i = Len(req)
    /\ allResults' = Gather(allResults, results)
    /\ progress' = Append(progress, Report(batchStart))
    /\ batchStart' = batchStart + BATCH_SIZE
    /\ pc' = IF batchStart' < Len(Positions) THEN "batch" ELSE "classify"
    /\ req' = <<>>
    /\ i' = 0
    /\ attempt' = 0
    /\ lastError' = ""
    /\ results' = <<>>
    /\ calls' = <<>>
    /\ pause' = 0
    /\ UNCHANGED <<pgn, evaluator, thrown, returned, faults, cancelAt, sent, uiVars>>

\* invoke resolves with error set (the relay unreachable, a non-2xx answer)
BatchFails ==
    /\ pc = "await"
    /\ pc' = "failed"
    /\ thrown' = "Engine evaluation failed"
    /\ req' = <<>>
    /\ i' = 0
    /\ attempt' = 0
    /\ lastError' = ""
    /\ results' = <<>>
    /\ calls' = <<>>
    /\ pause' = 0
    /\ UNCHANGED <<pgn, evaluator, batchStart, allResults, progress, returned,
                   faults, cancelAt, sent, uiVars>>

---------------------------------------------------------------------------
(* evaluateGame: classification *)

\* evalData.winChance; undefined when the object has no such field
WinChanceOf(r) == IF "winChance" \in DOMAIN r THEN Num(r.winChance) ELSE NaN

\* Math.round(evalData.eval * 100): pawns to centipawns
ScoreOf(r) == IF "eval" \in DOMAIN r THEN Num(MathRound(r.eval, 10)) ELSE NaN

\* Classify a move by the Win% loss from the moving player's perspective.
ClassifyMove(winBefore, winAfter) ==
    LET winProbLoss == Sub(winBefore, winAfter)
    IN  IF Ge(winProbLoss, 200) THEN [type |-> "blunder", winProbLoss |-> winProbLoss]
        ELSE IF Ge(winProbLoss, 100) THEN [type |-> "mistake", winProbLoss |-> winProbLoss]
        ELSE IF Ge(winProbLoss, 50) THEN [type |-> "inaccuracy", winProbLoss |-> winProbLoss]
        ELSE IF Le(winProbLoss, -50) THEN [type |-> "brilliant", winProbLoss |-> winProbLoss]
        ELSE IF Le(winProbLoss, -10) THEN [type |-> "excellent", winProbLoss |-> winProbLoss]
        ELSE [type |-> "good", winProbLoss |-> winProbLoss]

\* const wasWhiteTurn = i % 2 === 0.  The code replays from the standard
\* starting position, so White makes ply 0: first = "w" in every run.  The
\* parameter exists to state the colour-mirrored game.
WasWhiteTurn(ply, first) == (ply % 2 = 0) <=> (first = "w")

\* wasWhiteTurn ? winChance : 100 - winChance
PlayerWin(winChance, wasWhiteTurn) ==
    IF wasWhiteTurn THEN winChance ELSE Sub(Num(1000), winChance)

\* !evalData || evalData.error : skip positions that failed to evaluate
Skipped(res, k) == k > Len(res) \/ HasError(res[k])

\* The object pushed on evaluatedMoves for ply `ply`.
EvaluatedMove(ply, evalData, prevWinChance, first) ==
    LET wasWhiteTurn == WasWhiteTurn(ply, first)
        currWinChance == WinChanceOf(evalData)
    IN  [ ply            |-> ply,
          moveNumber     |-> (ply \div 2) + 1,
          score          |-> ScoreOf(evalData),
          winChance      |-> currWinChance,
          classification |-> ClassifyMove(PlayerWin(prevWinChance, wasWhiteTurn),
                                          PlayerWin(currWinChance, wasWhiteTurn)),
          color          |-> IF wasWhiteTurn THEN "w" ELSE "b" ]

\* for (let i = 0; i < history.length; i++) { ... }, from ply `ply` on
RECURSIVE ClassifyFrom(_, _, _, _, _)
ClassifyFrom(res, plies, ply, prevWinChance, first) ==
    IF ply >= plies THEN <<>>
    ELSE IF Skipped(res, ply + 2)
    THEN ClassifyFrom(res, plies, ply + 1, prevWinChance, first)
    ELSE <<EvaluatedMove(ply, res[ply + 2], prevWinChance, first)>>
         \o ClassifyFrom(res, plies, ply + 1, WinChanceOf(res[ply + 2]), first)

EvaluatedMoves(res, plies, first) ==
    ClassifyFrom(res, plies, 0, WinChanceOf(res[1]), first)

---------------------------------------------------------------------------
(* evaluateGame: accuracy *)

\* 113.0 * Math.exp(-0.0165 * cpLoss) - 13.0 for cpLoss = 21 .. 131, in
\* thousandths, rounded to the nearest; it is negative from 132 on.
RawTable ==
  << 66909, 65601, 64315, 63050, 61805, 60581, 59377, 58193, 57027, 55882,
     54754, 53646, 52555, 51482, 50427, 49389, 48368, 47364, 46376, 45404,
     44448, 43508, 42584, 41674, 40779, 39899, 39034, 38182, 37344, 36521,
     35710, 34913, 34129, 33358, 32599, 31853, 31119, 30397, 29687, 28988,
     28301, 27625, 26960, 26306, 25663, 25030, 24408, 23796, 23194, 22602,
     22019, 21446, 20882, 20328, 19782, 19246, 18718, 18199, 17688, 17186,
     16692, 16206, 15728, 15258, 14796, 14341, 13894, 13453, 13021, 12595,
     12176, 11764, 11359, 10960, 10568, 10182, 9803, 9430, 9063, 8702,
     8347, 7997, 7654, 7316, 6983, 6656, 6334, 6018, 5707, 5401,
     5100, 4803, 4512, 4225, 3944, 3666, 3394, 3125, 2861, 2602,
     2347, 2095, 1848, 1605, 1366, 1131, 900, 673, 449, 229,
     12 >>

\* raw, for an integer cpLoss > 20; beyond the table only its sign matters
\* (it lies between -13 and 0), so the limit -13 stands for it.
Raw(cpLoss) ==
    IF cpLoss - 20 <= Len(RawTable) THEN RawTable[cpLoss - 20] ELSE -13000

\* Math.max(0, Math.min(100, x)), x in 1/unit of a point
Clamp(x, unit) == IF x.nan THEN NaN ELSE Num(Max(0, Min(100 * unit, x.v)))

\* the loss taken from White's side for both players
CpLossOfWhite(cpBefore, cpAfter, isWhite) == Sub(cpBefore, cpAfter)

\* const cpLoss = playerBefore - playerAfter
CpLoss(cpBefore, cpAfter, isWhite) ==
    LET playerBefore == IF isWhite THEN cpBefore ELSE Neg(cpBefore)
        playerAfter == IF isWhite THEN cpAfter ELSE Neg(cpAfter)
    IN  Sub(playerBefore, playerAfter)

\* a curve that gives 100 only to a move that gains centipawns
AccuracyOfLossNoTolerance(cpLoss) ==
    IF Le(cpLoss, -1) THEN Num(100000)
    ELSE IF Le(cpLoss, 10) THEN Num(96000)
    ELSE IF Le(cpLoss, 20) THEN Num(88000)
    ELSE IF cpLoss.nan THEN NaN
    ELSE Clamp(Num(Raw(cpLoss.v)), 1000)

\* the thresholds and the curve of moveAccuracy
AccuracyOfLoss(cpLoss) ==
    IF Le(cpLoss, 5) THEN Num(100000)
    ELSE IF Le(cpLoss, 10) THEN Num(96000)
    ELSE IF Le(cpLoss, 20) THEN Num(88000)
    ELSE IF cpLoss.nan THEN NaN
    ELSE Clamp(Num(Raw(cpLoss.v)), 1000)

MoveAccuracy(cpBefore, cpAfter, isWhite) ==
    AccuracyOfLoss(CpLoss(cpBefore, cpAfter, isWhite))

\* scores without the starting position: every move is then measured
\* against its own score
AllScoresOfMovesOnly(startEval, moves) ==
    IF moves = <<>> THEN <<ScoreOf(startEval)>>
    ELSE [k \in 1 .. Len(moves) + 1 |-> moves[Min(k, Len(moves))].score]

\* [Math.round(startEval.eval * 100), ...evaluatedMoves.map((m) => m.score)]
AllScores(startEval, moves) ==
    <<ScoreOf(startEval)>> \o [k \in 1 .. Len(moves) |-> moves[k].score]

\* accs of calcGameAccuracy(color): evaluatedMoves[i] is scored with
\* allScores[i] and allScores[i + 1]
Accs(moves, allScores, color) ==
    LET mine == SelectSeq([k \in 1 .. Len(moves) |-> k],
                          LAMBDA k : moves[k].color = color)
    IN  [n \in 1 .. Len(mine) |->
            MoveAccuracy(allScores[mine[n]], allScores[mine[n] + 1], color = "w")]

\* accs.reduce((sum, a) => sum + 1 / (a + epsilon), 0), scaled by 10^6
RECURSIVE HarmonicSum(_)
HarmonicSum(accs) ==
    IF accs = <<>> THEN 0
    ELSE (1000000000 \div (Head(accs).v + 500)) + HarmonicSum(Tail(accs))

\* a mean that does not take epsilon off again
HarmonicMeanKeepsEpsilon(accs) ==
    IF \E n \in 1 .. Len(accs) : accs[n].nan THEN NaN
    ELSE Num((Len(accs) * 100000000) \div HarmonicSum(accs))

\* accs.length / harmonicSum - epsilon, in hundredths of a point
HarmonicMean(accs) ==
    IF \E n \in 1 .. Len(accs) : accs[n].nan THEN NaN
    ELSE Num(((Len(accs) * 100000000) \div HarmonicSum(accs)) - 50)

\* Math.round(x), x in hundredths of a point
RoundPoints(x) == IF x.nan THEN NaN ELSE Num(MathRound(x.v, 100))

\* a side without moves scored as 0 instead of 100
EmptyAccuracyZero == Num(0)

\* if (accs.length === 0) return 100
EmptyAccuracy == Num(100)

CalcGameAccuracy(moves, allScores, color) ==
    LET accs == Accs(moves, allScores, color)
    IN  IF Len(accs) = 0 THEN EmptyAccuracy
        ELSE RoundPoints(Clamp(HarmonicMean(accs), 100))

---------------------------------------------------------------------------
(* evaluateGame: summary *)

\* evaluatedMoves.filter((m) => m.classification.type === type)
OfType(moves, type) == SelectSeq(moves, LAMBDA m : m.classification.type = type)

\* Math.round(winProbLoss), winProbLoss in tenths of a point
RoundLoss(loss) == IF loss.nan THEN NaN ELSE Num(MathRound(loss.v, 10))

\* `${moveNumber}${color === "w" ? "." : "..."} ${san} (${...}% WP loss)`
SummaryItem(m) ==
    [ moveNumber |-> m.moveNumber,
      color      |-> m.color,
      loss       |-> RoundLoss(m.classification.winProbLoss) ]

Itemized(moves) == [n \in 1 .. Len(moves) |-> SummaryItem(moves[n])]

\* summaryLines: the accuracies, the counts, then one line that lists the
\* blunders and one that lists the mistakes (a line is left out when its
\* list is empty)
Summary(moves, accuracy) ==
    LET blunders == OfType(moves, "blunder")
        mistakes == OfType(moves, "mistake")
        inaccuracies == OfType(moves, "inaccuracy")
    IN  [ accuracy |-> accuracy,
          counts   |-> [ blunders     |-> Len(blunders),
                         mistakes     |-> Len(mistakes),
                         inaccuracies |-> Len(inaccuracies) ],
          blunders |-> Itemized(blunders),
          mistakes |-> Itemized(mistakes) ]

\* { moves: evaluatedMoves, accuracy, summary }
GameEvaluation(res, plies, first) ==
    LET moves == EvaluatedMoves(res, plies, first)
        allScores == AllScores(res[1], moves)
        accuracy == [ white |-> CalcGameAccuracy(moves, allScores, "w"),
                      black |-> CalcGameAccuracy(moves, allScores, "b") ]
    IN  [ moves    |-> moves,
          accuracy |-> accuracy,
          summary  |-> Summary(moves, accuracy) ]

\* if (!startEval || startEval.error) throw ...
StartFailed(res) == Skipped(res, 1)

\* the synchronous rest of evaluateGame, after the last batch
Classify ==
    /\ pc = "classify"
    /\ IF StartFailed(allResults)
       THEN /\ pc' = "failed"
            /\ thrown' = "Failed to evaluate starting position"
            /\ returned' = returned
       ELSE /\ pc' = "done"
            /\ thrown' = thrown
            /\ returned' = <<GameEvaluation(allResults, Plies, "w")>>
    /\ UNCHANGED <<pgn, evaluator, batchStart, allResults, progress,
                   serveVars, faults, cancelAt, sent, uiVars>>

Next ==
    \/ LoadPgn
    \/ InvokeBatch
    \/ FetchOk
    \/ FetchError
    \/ FetchThrows
    \/ BatchReturns
    \/ BatchFails
    \/ Classify

Spec == Init /\ [][Next]_vars

\* The runs in which an evaluator call may also never settle.  The event
\* loop runs every continuation that is ready, and a call that settles does
\* so in the end: whatever can happen does happen.
NextLive == Next \/ FetchHangs

SpecLive == Init /\ [][NextLive]_vars /\ WF_vars(NextLive)

\* The caller stops wanting the result while evaluateGame awaits a batch:
\* the modal that started the analysis is closed.  evaluateGame takes no
\* signal and the effect that called it registers no cleanup.
RequestCancel ==
    /\ pc = "await"
    /\ cancelAt = -1
    /\ cancelAt' = Len(allResults) + Len(results)
    /\ UNCHANGED <<pgn, evaluator, pc, thrown, batchStart, allResults,
                   progress, returned, serveVars, faults, sent, uiVars>>

NextCancel == Next \/ RequestCancel

SpecCancel == Init /\ [][NextCancel]_vars

---------------------------------------------------------------------------
(* The analysis flows: engine evaluation, then the AI request *)

\* games.filter((g) => g.pgn).slice(0, 5)
GamesCap == 5

\* details: allMistakes.slice(0, 20)
DetailsCap == 20

\* At most this many recent games are handed to the profile breakdown.
MaxGames == 2

\* String.prototype.toLowerCase on the names that occur
Lower(s) ==
    CASE s = "ANN" -> "ann"
      [] s = "Ann" -> "ann"
      [] OTHER -> s

\* What the engine says about the positions of a game, in centipawns for
\* White: the start position, then the position after every ply.
Lines ==
    { <<0, -60, -60, -310>>, <<0, 0, 250, 250>>, <<0, 0, 350, 300>>,
      <<0, 0, 0, 0>> }

\* The engine's winChance (tenths of a percent) for these scores.
WinChanceAt(cp) ==
    CASE cp = -310 -> 242
      [] cp = -60  -> 445
      [] cp = 0    -> 500
      [] cp = 250  -> 715
      [] cp = 300  -> 751
      [] cp = 350  -> 784

\* the results evaluateGame gathers for a game when every position is
\* evaluated
LineResults(line) ==
    [k \in 1 .. Len(line) |-> Data(Eval(line[k] * 10, WinChanceAt(line[k])), k - 1)]

\* A game of the recent-games list: g.pgn (present or not), g.white.username
\* and, standing for the moves in the PGN, the engine's scores of its
\* positions.  id is its place in the list and stands for the PGN text.
GameRecords(id) ==
    { [id |-> id, hasPgn |-> h, white |-> w, line |-> l] :
        h \in BOOLEAN, w \in {"ANN", "bob"}, l \in Lines }

GameLists(n) ==
    { gs \in [1 .. n -> UNION {GameRecords(k) : k \in 1 .. n}] :
        \A k \in 1 .. n : gs[k].id = k }

\* evaluateGame is not running on its own: the flows below take its outcome.
PipelineIdle ==
    /\ pgn = [parses |-> FALSE, plies |-> 0]
    /\ evaluator = RichEvaluator
    /\ pc = "idle"
    /\ thrown = ""
    /\ batchStart = 0
    /\ allResults = <<>>
    /\ progress = <<>>
    /\ returned = <<>>
    /\ req = <<>>
    /\ i = 0
    /\ attempt = 0
    /\ lastError = ""
    /\ results = <<>>
    /\ calls = <<>>
    /\ faults = 0
    /\ cancelAt = -1
    /\ pause = 0
    /\ sent = <<>>

InitFlows ==
    /\ PipelineIdle
    /\ PanelIdle
    /\ flow \in {"game", "profile"}
    /\ fpc = "start"
    /\ username = "Ann"
    /\ games \in IF flow = "game" THEN GameLists(1)
                 ELSE UNION {GameLists(n) : n \in 0 .. MaxGames}
    /\ gameIdx = 0
    /\ perGame = <<>>
    /\ engineData = <<>>
    /\ aiRequests = <<>>
    /\ flowResult = ""

\* const gamesToAnalyze = games.filter((g) => g.pgn).slice(0, 5)
GamesToAnalyze(gs) ==
    LET withPgn == SelectSeq(gs, LAMBDA g : g.hasPgn)
    IN  SubSeq(withPgn, 1, Min(GamesCap, Len(withPgn)))

\* what evaluateGame(game.pgn) returns when it returns
EvaluateGameResult(game) ==
    GameEvaluation(LineResults(game.line), Len(game.line) - 1, "w")

\* results.push({ pgn: gamesToAnalyze[i].pgn, eval })
PerGameEntry(game) == [pgn |-> game.id, eval |-> EvaluateGameResult(game)]

\* isWhite ? "w" : "b"
PlayerColor(game, name) ==
    IF Lower(game.white) = Lower(name) THEN "w" ELSE "b"

\* m.color === "w" ? score : -score
MoverScore(m, score) == IF m.color = "w" THEN score ELSE Neg(score)

\* cpLoss >= 300 ? "blunder" : cpLoss >= 100 ? "mistake" : "inaccuracy"
CpClassification(cpLoss) ==
    IF Ge(cpLoss, 300) THEN "blunder"
    ELSE IF Ge(cpLoss, 100) THEN "mistake"
    ELSE "inaccuracy"

\* m.moveNumber <= 12 ? "opening" : m.moveNumber <= 30 ? "middlegame" : "endgame"
Phase(moveNumber) ==
    IF moveNumber <= 12 THEN "opening"
    ELSE IF moveNumber <= 30 THEN "middlegame"
    ELSE "endgame"

\* for (let i = 1; i < r.eval.moves.length; i++) { ... }, from the n-th
\* move on (n = i + 1)
RECURSIVE MistakesFrom(_, _, _, _)
MistakesFrom(moves, n, playerColor, gi) ==
    IF n > Len(moves) THEN <<>>
    ELSE LET m == moves[n]
             prev == moves[n - 1]
             cpBefore == MoverScore(m, prev.score)
             cpAfter == MoverScore(m, m.score)
             cpLoss == Sub(cpBefore, cpAfter)
         IN  (IF m.color = playerColor /\ Ge(cpLoss, 50)
              THEN << [ game           |-> gi,
                        moveNumber     |-> m.moveNumber,
                        color          |-> m.color,
                        cpLoss         |-> cpLoss,
                        classification |-> CpClassification(cpLoss),
                        phase          |-> Phase(m.moveNumber) ] >>
              ELSE <<>>)
             \o MistakesFrom(moves, n + 1, playerColor, gi)

\* for (let gi = 0; gi < results.length; gi++) { const r = results[gi];
\* const game = gamesToAnalyze[gi]; ... }, from the gi-th result on (1-based)
RECURSIVE AllMistakesFrom(_, _, _, _)
AllMistakesFrom(res, gamesToAnalyze, name, gi) ==
    IF gi > Len(res) THEN <<>>
    ELSE MistakesFrom(res[gi].eval.moves, 2,
                      PlayerColor(gamesToAnalyze[gi], name), gi)
         \o AllMistakesFrom(res, gamesToAnalyze, name, gi + 1)

\* allMistakes.filter(m => m.classification === c).length
OfClass(allMistakes, c) ==
    Len(SelectSeq(allMistakes, LAMBDA m : m.classification = c))

\* allMistakes.filter(m => m.phase === p).length
InPhase(allMistakes, p) ==
    Len(SelectSeq(allMistakes, LAMBDA m : m.phase = p))

\* structured: { gamesAnalyzed, totalMistakes, ..., details, depth: 16 }
Structured(res, allMistakes) ==
    [ gamesAnalyzed |-> Len(res),
      totalMistakes |-> Len(allMistakes),
      blunders      |-> OfClass(allMistakes, "blunder"),
      mistakes      |-> OfClass(allMistakes, "mistake"),
      inaccuracies  |-> OfClass(allMistakes, "inaccuracy"),
      byPhase       |-> [ opening    |-> InPhase(allMistakes, "opening"),
                          middlegame |-> InPhase(allMistakes, "middlegame"),
                          endgame    |-> InPhase(allMistakes, "endgame") ],
      details       |-> SubSeq(allMistakes, 1, Min(DetailsCap, Len(allMistakes))),
      depth         |-> 16 ]

BatchResultAlwaysStructured(res, gamesToAnalyze, name) ==
    [ perGame    |-> res,
      structured |-> <<Structured(res, AllMistakesFrom(res, gamesToAnalyze, name, 1))>> ]

\* what batchEngineAnalysis returns once the loop over the games is over;
\* structured is <<>> for null
BatchResult(res, gamesToAnalyze, name) ==
    IF Len(res) = 0
    THEN [perGame |-> <<>>, structured |-> <<>>]
    ELSE [ perGame    |-> res,
           structured |-> <<Structured(res, AllMistakesFrom(res, gamesToAnalyze, name, 1))>> ]

\* supabase.functions.invoke(fn, { body: { ..., engineAnalysis } })
AIRequest(fn, engineAnalysis) == [fn |-> fn, engineAnalysis |-> engineAnalysis]

flowFrame == <<pipelineVars, panelVars, flow, username, games>>

\* GameAnalysisModal: the effect starts the analysis of the game
StartGame ==
    /\ flow = "game"
    /\ fpc = "start"
    /\ IF ~games[1].hasPgn
       THEN /\ fpc' = "done"
            /\ flowResult' = "No PGN data available"
       ELSE /\ fpc' = "engine"
            /\ flowResult' = flowResult
    /\ UNCHANGED <<flowFrame, gameIdx, perGame, engineData, aiRequests>>

\* GameAnalysisModal: evaluateGame settles (ok: it returned, else it threw)
\* and the request to analyze-game is sent
GameEngineSettles ==
    /\ flow = "game"
    /\ fpc = "engine"
    /\ \E ok \in BOOLEAN :
         LET evalResult == IF ok THEN <<PerGameEntry(games[1])>> ELSE <<>>
             engineAnalysis ==
                 IF evalResult # <<>>
                 THEN <<[summary |-> evalResult[1].eval.summary, depth |-> 10]>>
                 ELSE <<>>
         IN  /\ perGame' = evalResult
             /\ engineData' = engineAnalysis
             /\ aiRequests' = Append(aiRequests, AIRequest("analyze-game", engineAnalysis))
    /\ fpc' = "ai"
    /\ UNCHANGED <<flowFrame, gameIdx, flowResult>>

\* the end of the engine phase of fetchAIAnalysis: batchEngineAnalysis
\* returned, and the request to analyze-chess is sent
EnginePhaseEnds(res) ==
    LET out == BatchResult(res, GamesToAnalyze(games), username)
    IN  /\ perGame' = out.perGame
        /\ engineData' = out.structured
        /\ aiRequests' = Append(aiRequests, AIRequest("analyze-chess", out.structured))
        /\ fpc' = "ai"

\* fetchAIAnalysis is called: batchEngineAnalysis starts on the first game
StartProfile ==
    /\ flow = "profile"
    /\ fpc = "start"
    /\ IF Len(GamesToAnalyze(games)) = 0
       THEN EnginePhaseEnds(<<>>)
       ELSE /\ fpc' = "engine"
            /\ UNCHANGED <<perGame, engineData, aiRequests>>
    /\ UNCHANGED <<flowFrame, gameIdx, flowResult>>

\* batchEngineAnalysis: evaluateGame settles for gamesToAnalyze[gameIdx]
\* (ok: it returned, else it threw and the game is skipped)
ProfileGameSettles ==
    /\ flow = "profile"
    /\ fpc = "engine"
    /\ \E ok \in BOOLEAN :
         LET gamesToAnalyze == GamesToAnalyze(games)
             game == gamesToAnalyze[gameIdx + 1]
             res == IF ok THEN Append(perGame, PerGameEntry(game)) ELSE perGame
         IN  IF gameIdx + 1 < Len(gamesToAnalyze)
             THEN /\ perGame' = res
                  /\ UNCHANGED <<fpc, engineData, aiRequests>>
             ELSE EnginePhaseEnds(res)
    /\ gameIdx' = gameIdx + 1
    /\ UNCHANGED <<flowFrame, flowResult>>

\* the AI request settles: the analysis, or an error that is shown
AISettles ==
    /\ fpc = "ai"
    /\ \E ok \in BOOLEAN :
         flowResult' = IF ok THEN "analysis" ELSE "error"
    /\ fpc' = "done"
    /\ UNCHANGED <<flowFrame, gameIdx, perGame, engineData, aiRequests>>

NextFlows ==
    \/ StartGame
    \/ GameEngineSettles
    \/ StartProfile
    \/ ProfileGameSettles
    \/ AISettles

SpecFlows == InitFlows /\ [][NextFlows]_vars

---------------------------------------------------------------------------
(* InsightsPanel: the effect that runs the profile analysis *)

\* How often the panel's inputs are set: the mount and the later changes.
MaxRuns == 3

InitPanel == PipelineIdle /\ FlowIdle /\ PanelIdle

panelFrame == <<pipelineVars, flowVars>>

\* let cancelled = false; run() up to its await: setLoading(true);
\* setError(null); fetchAIAnalysis(username, stats, games) is in flight
StartRun(before, props) ==
    /\ runs' = Append(before, [inputs |-> props, cancelled |-> FALSE, settled |-> ""])
    /\ loading' = TRUE
    /\ error' = 0
    /\ analysis' = analysis

\* return () => { cancelled = true; } of the effect run last started
Cleanup(rs) ==
    IF rs = <<>> THEN rs
    ELSE [rs EXCEPT ![Len(rs)].cancelled = TRUE]

\* the panel mounts: the effect runs for the first inputs
Mount ==
    /\ ~mounted
    /\ runs = <<>>
    /\ mounted' = TRUE
    /\ inputs' = 1
    /\ StartRun(runs, 1)
    /\ UNCHANGED panelFrame

\* username, stats or games change: cleanup of the last effect run, then
\* the effect runs for the new inputs
InputsChange ==
    /\ mounted
    /\ inputs < MaxRuns
    /\ inputs' = inputs + 1
    /\ StartRun(Cleanup(runs), inputs + 1)
    /\ UNCHANGED <<panelFrame, mounted>>

\* the panel unmounts: cleanup of the last effect run
Unmount ==
    /\ mounted
    /\ mounted' = FALSE
    /\ runs' = Cleanup(runs)
    /\ UNCHANGED <<panelFrame, inputs, analysis, loading, error>>

\* if (!cancelled) ...
RunWrites(k) == ~runs[k].cancelled

\* fetchAIAnalysis of run k resolves: if (!cancelled) setAnalysis(result);
\* finally if (!cancelled) setLoading(false)
RunResolves ==
    \E k \in 1 .. Len(runs) :
       /\ runs[k].settled = ""
       /\ runs' = [runs EXCEPT ![k].settled = "resolved"]
       /\ IF RunWrites(k)
          THEN /\ analysis' = runs[k].inputs
               /\ loading' = FALSE
          ELSE UNCHANGED <<analysis, loading>>
       /\ UNCHANGED <<panelFrame, mounted, inputs, error>>

\* fetchAIAnalysis of run k rejects: if (!cancelled) setError(...); finally
\* if (!cancelled) setLoading(false)
RunRejects ==
    \E k \in 1 .. Len(runs) :
       /\ runs[k].settled = ""
       /\ runs' = [runs EXCEPT ![k].settled = "rejected"]
       /\ IF RunWrites(k)
          THEN /\ error' = runs[k].inputs
               /\ loading' = FALSE
          ELSE UNCHANGED <<error, loading>>
       /\ UNCHANGED <<panelFrame, mounted, inputs, analysis>>

NextPanel ==
    \/ Mount
    \/ InputsChange
    \/ Unmount
    \/ RunResolves
    \/ RunRejects

SpecPanel == InitPanel /\ [][NextPanel]_vars

---------------------------------------------------------------------------
(* Vocabulary of the properties *)

\* evaluateGame returned a GameEvaluation
Done == pc = "done"

\* every batch returned and the synchronous rest of evaluateGame ran
Classified == pc \in {"done", "failed"} /\ Len(allResults) = Plies + 1

Result == returned[1]

\* the result delivered for position k (0 = the starting position)
ResultOf(k) == allResults[k + 1]

\* the evaluation function obtained a successful evaluator response for k
Scored(k) == ~IsMarker(ResultOf(k))

FailedPositions == {k \in 0 .. Plies : ~Scored(k)}

\* the plies that have an entry in the returned move list
MovePlies == {Result.moves[n].ply : n \in 1 .. Len(Result.moves)}

MovesOf(color) == SelectSeq(Result.moves, LAMBDA m : m.color = color)

\* the classification of `ply` computed from the evaluations of the
\* positions immediately before and immediately after it
AdjacentClassification(ply) ==
    ClassifyMove(PlayerWin(WinChanceOf(ResultOf(ply)), ply % 2 = 0),
                 PlayerWin(WinChanceOf(ResultOf(ply + 1)), ply % 2 = 0))

---------------------------------------------------------------------------
(* C1: when exactly one non-initial position k fails and every other       *)
(* position is scored, evaluateGame returns, the returned moves are the    *)
(* plies that do not touch position k (all but ply k-1, which produced it, *)
(* and ply k, played from it), and every returned classification is        *)
(* computed from the positions immediately before and after its ply.       *)
C1_SkipsPliesTouchingFailure ==
    \A k \in 1 .. Plies :
        (Classified /\ FailedPositions = {k})
        => /\ Done
           /\ MovePlies = (0 .. Plies - 1) \ {k - 1, k}
           /\ \A n \in 1 .. Len(Result.moves) :
                 /\ Scored(Result.moves[n].ply)
                 /\ Result.moves[n].classification
                       = AdjacentClassification(Result.moves[n].ply)

(* C2: a per-position failure makes evaluateGame fail exactly when the     *)
(* failed position is the starting position: with the start scored it      *)
(* returns whatever other positions carry an error marker, with an error   *)
(* marker at the start it fails.                                           *)
C2_FailsIffStartFailed ==
    Classified => (Done <=> Scored(0))

(* C3: when a batch invocation fails after earlier batches returned        *)
(* results, a partial GameEvaluation built from them is still delivered.   *)
C3_PartialResultOnBatchFailure ==
    (pc = "failed" /\ thrown = "Engine evaluation failed" /\ Len(allResults) > 0)
    => Len(returned) = 1

(* C4: the combined result list is aligned with the positions: at every    *)
(* moment its k-th element is the result of the k-th position, and once    *)
(* all batches returned it has exactly Plies + 1 elements.                 *)
C4_ResultsAligned ==
    /\ Len(allResults) <= Plies + 1
    /\ \A k \in 1 .. Len(allResults) : allResults[k].fen = Positions[k]
    /\ pc \in {"classify", "done"} => Len(allResults) = Plies + 1
    /\ pc = "await" => Len(allResults) = batchStart

\* several batches, a position that exhausted its retries, a retry that
\* succeeded
C4_Witness ==
    /\ Done
    /\ Plies > BATCH_SIZE
    /\ \E k \in 1 .. Plies : ~Scored(k)
    /\ faults > MaxAttempts

\* the class of the table of section 4.3, loss in tenths of a point
C5_Table(loss) ==
    CASE ~loss.nan /\ loss.v >= 200 -> "blunder"
      [] ~loss.nan /\ 100 <= loss.v /\ loss.v < 200 -> "mistake"
      [] ~loss.nan /\ 50 <= loss.v /\ loss.v < 100 -> "inaccuracy"
      [] ~loss.nan /\ loss.v <= -50 -> "brilliant"
      [] ~loss.nan /\ -50 < loss.v /\ loss.v <= -10 -> "excellent"
      [] OTHER -> "good"

\* the win chance the n-th returned move was compared with
WinBefore(n) ==
    IF n = 1 THEN WinChanceOf(ResultOf(0)) ELSE Result.moves[n - 1].winChance

\* winBefore - winAfter of the n-th returned move, from the mover's side
MoverLoss(n) ==
    LET m == Result.moves[n]
    IN  Sub(PlayerWin(WinBefore(n), m.color = "w"),
            PlayerWin(m.winChance, m.color = "w"))

(* C5: every returned move carries the class the table gives for its       *)
(* mover-perspective loss, its stored loss is that loss unclamped, and a   *)
(* move classified Good has -1 < loss <= 5.                                *)
C5_ClassifiedByTable ==
    Done =>
      \A n \in 1 .. Len(Result.moves) :
         LET c == Result.moves[n].classification
         IN  /\ c.winProbLoss = MoverLoss(n)
             /\ c.type = C5_Table(c.winProbLoss)
             /\ c.type = "good"
                  => (~c.winProbLoss.nan /\ -10 < c.winProbLoss.v
                        /\ c.winProbLoss.v <= 50)

\* the colour-mirrored evaluation: winChance w -> 100 - w, eval e -> -e
Mirror(r) ==
    IF IsMarker(r) THEN r
    ELSE [eval |-> 0 - r.eval, winChance |-> 1000 - r.winChance, fen |-> r.fen]

MirrorAll(res) == [k \in 1 .. Len(res) |-> Mirror(res[k])]

Swap(color) == IF color = "w" THEN "b" ELSE "w"

\* types and losses of the mirrored game equal the original's, sides swapped
C6_SameClassification(orig, mirrored) ==
    /\ Len(mirrored.moves) = Len(orig.moves)
    /\ \A n \in 1 .. Len(orig.moves) :
          /\ mirrored.moves[n].ply = orig.moves[n].ply
          /\ mirrored.moves[n].color = Swap(orig.moves[n].color)
          /\ mirrored.moves[n].classification = orig.moves[n].classification

(* C6: perspective symmetry: the mirrored game, Black moving first, has    *)
(* the same classification types and losses with the sides swapped, and    *)
(* its White and Black accuracies are the original's, swapped.             *)
C6_PerspectiveSymmetry ==
    Done =>
      LET mirrored == GameEvaluation(MirrorAll(allResults), Plies, "b")
      IN  /\ C6_SameClassification(Result, mirrored)
          /\ mirrored.accuracy.white = Result.accuracy.black
          /\ mirrored.accuracy.black = Result.accuracy.white

InRange(a) == ~a.nan /\ 0 <= a.v /\ a.v <= 100

(* C7: every returned accuracy is a number within [0, 100].                *)
C7_AccuracyInRange ==
    Done => InRange(Result.accuracy.white) /\ InRange(Result.accuracy.black)

AccuracyOf(color) ==
    IF color = "w" THEN Result.accuracy.white ELSE Result.accuracy.black

C9_EntryIffScored ==
    Done => \A p \in 0 .. Plies - 1 : (p \in MovePlies <=> Scored(p + 1))

(* C10: every position without a successful evaluator response is          *)
(* delivered as a marker that evaluateGame recognises as failed, whatever  *)
(* its error text: it is skipped, or aborts the run when it is the start.  *)
C10_FailureRecognised ==
    /\ \A k \in 1 .. Len(allResults) :
          IsMarker(allResults[k]) => Skipped(allResults, k)
    /\ Classified =>
          \A k \in FailedPositions :
             IF k = 0 THEN pc = "failed" ELSE (Done => (k - 1) \notin MovePlies)

(* C11: a record that cannot be parsed or has no moves makes evaluateGame   *)
(* fail in its first step: no batch is ever sent to the relay, no evaluator *)
(* call is made or retried, no progress is reported, nothing is returned.   *)
C11_InvalidRecordFailsAtOnce ==
    (~pgn.parses \/ Plies = 0) =>
       /\ pc \in {"start", "failed"}
       /\ pc = "failed" => thrown \in {"Invalid PGN format", "No moves found in PGN"}
       /\ req = <<>> /\ calls = <<>> /\ faults = 0
       /\ allResults = <<>> /\ progress = <<>> /\ returned = <<>>

\* a record that parses and has no moves was refused
C11_Witness ==
    pgn.parses /\ Plies = 0 /\ pc = "failed" /\ thrown = "No moves found in PGN"

\* the relay finished the position before the one it works on now
PositionFinished == pc = "await" /\ attempt = 0 /\ i > 0

LastCall == calls[Len(calls)]

(* C12: the relay calls the evaluator at most three times for a position,   *)
(* whatever mix of overload answers, other error answers and thrown errors  *)
(* it meets: while a position is in work the calls made equal the attempt   *)
(* number, which stays below three, and a position whose last call failed   *)
(* is marked failed.                                                        *)
C12_AtMostThreeCalls ==
    /\ Len(calls) <= MaxAttempts
    /\ pc = "await" => attempt < MaxAttempts
    /\ (pc = "await" /\ attempt > 0) => Len(calls) = attempt
    /\ PositionFinished =>
          /\ calls # <<>>
          /\ (LastCall.outcome # "ok") <=> IsMarker(results[i])

\* an overload answer, a thrown error and an error answer in turn
C12_Witness ==
    /\ PositionFinished
    /\ Len(calls) = MaxAttempts
    /\ calls[1].outcome = "overload"
    /\ calls[2].outcome = "throw"
    /\ calls[3].outcome = "error"
    /\ IsMarker(results[i])

(* C13: a position that exhausted its retries degrades only itself: while   *)
(* the relay serves a request it holds one result for each position it has  *)
(* finished, marker or evaluation, in request order; the next position can  *)
(* always be attempted; and after the last one the answer can be delivered. *)
C13_OnlyThatPositionDegraded ==
    pc = "await" =>
       /\ Len(results) = i
       /\ i <= Len(req)
       /\ \A k \in 1 .. i : results[k].fen = req[k]
       /\ i < Len(req) => ENABLED FetchOk
       /\ i = Len(req) => ENABLED BatchReturns

\* three overload answers used up a position that is not the batch's last
C13_Witness ==
    /\ PositionFinished
    /\ i < Len(req)
    /\ Len(calls) = MaxAttempts
    /\ \A k \in 1 .. Len(calls) : calls[k].outcome = "overload"
    /\ IsMarker(results[i])

\* the calls for the position that threw and were followed by another call
RetriedThrows ==
    {k \in 1 .. Len(calls) :
        calls[k].outcome = "throw" /\ (k < Len(calls) \/ attempt > 0)}

(* C14, as stated: a call that throws is not retried, or retried at most    *)
(* once, before the position is marked unscored.                            *)
C14_ThrowRetriedAtMostOnce ==
    pc = "await" => Cardinality(RetriedThrows) <= 1

(* C14, amended: a call that throws is retried whenever it was the first or *)
(* the second call for the position, so at most twice; a throw of the third *)
(* call marks the position unscored and the batch goes on with the next     *)
(* position.                                                                *)
C14_ThrowRetriedUntilThirdCall ==
    pc = "await" =>
       /\ Cardinality(RetriedThrows) <= MaxAttempts - 1
       /\ \A k \in 1 .. Len(calls) :
             (calls[k].outcome = "throw" /\ k < MaxAttempts) => k \in RetriedThrows
       /\ (PositionFinished /\ LastCall.outcome = "throw") =>
             /\ Len(calls) = MaxAttempts
             /\ IsMarker(results[i])
             /\ results[i].fen = req[i]
             /\ i < Len(req) => ENABLED FetchOk

\* three thrown errors in a row, with positions left in the batch
C14_Witness ==
    /\ PositionFinished
    /\ i < Len(req)
    /\ Len(calls) = MaxAttempts
    /\ \A k \in 1 .. Len(calls) : calls[k].outcome = "throw"
    /\ IsMarker(results[i])

(* C15: every call of evaluateGame completes in the end, by returning or by *)
(* throwing, also when an evaluator call never settles.                     *)
C15_EventuallyCompletes == <>(pc \in {"done", "failed"})

\* positions answered so far in this run
Answered == Len(allResults) + Len(results)

(* C16: once the caller asked to stop, no further position is evaluated:    *)
(* at most the call that was in flight at that moment is still answered.    *)
C16_NothingStartedAfterCancel ==
    cancelAt >= 0 => Answered <= cancelAt + 1

(* C17: progress is reported once per completed batch as (current, total):  *)
(* total is the ply count, current lies within 0 .. total and never         *)
(* decreases, and the report after the last batch has current = total.      *)
C17_ProgressReports ==
    /\ Len(progress) = batchStart \div BATCH_SIZE
    /\ \A k \in 1 .. Len(progress) :
          /\ progress[k][2] = Plies
          /\ 0 <= progress[k][1]
          /\ progress[k][1] <= progress[k][2]
    /\ \A k \in 1 .. Len(progress) - 1 : progress[k][1] <= progress[k + 1][1]
    /\ Len(allResults) = Plies + 1 => progress[Len(progress)][1] = Plies

\* a game of three batches was evaluated
C17_Witness ==
    /\ Done
    /\ Len(progress) = 3
    /\ progress[1][1] < progress[2][1]
    /\ progress[2][1] < progress[3][1]

\* entries of the two itemized lines of the summary
ItemizedEntries == Len(Result.summary.blunders) + Len(Result.summary.mistakes)

(* C18: the summary itemizes at most twenty errors, however many blunders   *)
(* and mistakes the game has.                                               *)
C18_ItemsCapped ==
    Done => ItemizedEntries <= 20

\* allScores of the returned evaluation
ResultScores == AllScores(ResultOf(0), Result.moves)

\* moveAccuracy of the n-th returned move, as calcGameAccuracy computes it
PerMoveAccuracy(n) ==
    MoveAccuracy(ResultScores[n], ResultScores[n + 1], Result.moves[n].color = "w")

NoLoss(m) == Le(m.classification.winProbLoss, 0)

ScenarioScored ==
    /\ Done
    /\ evaluator = ScenarioEvaluator
    /\ FailedPositions = {}

(* C20, as stated: in the scenario accuracy.white is near 100 and           *)
(* accuracy.black is high but strictly below 100.                           *)
C20_BlackBelow100 ==
    ScenarioScored =>
      /\ InRange(Result.accuracy.white) /\ Result.accuracy.white.v >= 95
      /\ InRange(Result.accuracy.black) /\ Result.accuracy.black.v >= 90
      /\ Result.accuracy.black.v < 100

(* C20, amended: in the scenario both accuracies are exactly 100: White's   *)
(* move gains 30 centipawns for White and Black's move gains 10 for Black.  *)
C20_BothExactly100 ==
    ScenarioScored =>
      /\ Result.accuracy.white = Num(100)
      /\ Result.accuracy.black = Num(100)
      /\ CpLoss(ResultScores[1], ResultScores[2], TRUE) = Num(-30)
      /\ CpLoss(ResultScores[2], ResultScores[3], FALSE) = Num(-10)

\* the scenario ran, with the three scores 0, 30 and 20 centipawns
C20_Witness ==
    /\ ScenarioScored
    /\ ResultScores = <<Num(0), Num(30), Num(20)>>

\* the per-move accuracies of a colour in the returned evaluation
AccsOf(color) == Accs(Result.moves, ResultScores, color)

RECURSIVE SumOf(_)
SumOf(accs) == IF accs = <<>> THEN 0 ELSE Head(accs).v + SumOf(Tail(accs))

RECURSIVE LeastOf(_)
LeastOf(accs) ==
    IF Len(accs) = 1 THEN accs[1].v ELSE Min(Head(accs).v, LeastOf(Tail(accs)))

Scores(accs) == accs # <<>> /\ \A n \in 1 .. Len(accs) : ~accs[n].nan

(* C21: for a non-empty list of per-move scores of a colour, the game       *)
(* accuracy lies between the smallest score and the arithmetic mean of the  *)
(* scores, each rounded to the nearest integer.                             *)
C21_BetweenLeastAndMean ==
    Done =>
      \A color \in {"w", "b"} :
         LET accs == AccsOf(color)
         IN  Scores(accs) =>
               /\ ~AccuracyOf(color).nan
               /\ MathRound(LeastOf(accs), 1000) <= AccuracyOf(color).v
               /\ AccuracyOf(color).v <= MathRound(SumOf(accs), Len(accs) * 1000)

\* a perfect move and a move of accuracy 0: the result is far below the
\* arithmetic mean
C21_Witness ==
    /\ Done
    /\ Scores(AccsOf("w"))
    /\ Len(AccsOf("w")) >= 2
    /\ LeastOf(AccsOf("w")) = 0
    /\ \E n \in 1 .. Len(AccsOf("w")) : AccsOf("w")[n] = Num(100000)
    /\ AccuracyOf("w").v < MathRound(SumOf(AccsOf("w")), Len(AccsOf("w")) * 1000)

\* call k for the position was followed by another call for it
Retried(k) == k < Len(calls) \/ (pc = "await" /\ attempt > 0)

(* C22: the wait before each later retry of a position is longer than the  *)
(* wait before the previous one, whatever mix of overload answers and       *)
(* thrown errors led to them, and no wait follows the final attempt.        *)
C22_BackoffIncreases ==
    \A k \in 1 .. Len(calls) :
       IF Retried(k)
       THEN /\ calls[k].wait > 0
            /\ k > 1 => calls[k].wait > calls[k - 1].wait
       ELSE calls[k].wait = 0

\* a thrown error, then an overload answer, then the final attempt
C22_Witness ==
    /\ PositionFinished
    /\ Len(calls) = MaxAttempts
    /\ calls[1].outcome = "throw"
    /\ calls[2].outcome = "overload"
    /\ calls[1].wait < calls[2].wait
    /\ calls[3].wait = 0

(* C23: before the first evaluator call for every position but the game's   *)
(* first, the fixed delay has elapsed since the previous position's         *)
(* evaluation ended, also when the two positions are in different batches.  *)
C23_DelayBeforeEveryPosition ==
    (pc = "await" /\ i < Len(req) /\ attempt = 0 /\ batchStart + i > 0)
    => pause = PositionDelay

RECURSIVE Flatten(_)
Flatten(seqs) == IF seqs = <<>> THEN <<>> ELSE Head(seqs) \o Flatten(Tail(seqs))

(* C24: the requests sent are consecutive slices of at most 15 positions in *)
(* position order, so no position is sent twice and no batch re-sent; a     *)
(* request is sent only when every earlier one was answered; and when all   *)
(* batches returned every position was sent exactly once.                   *)
C24_BatchesInOrderOnce ==
    /\ \A k \in 1 .. Len(sent) : Len(sent[k]) >= 1 /\ Len(sent[k]) <= BATCH_SIZE
    /\ Len(Flatten(sent)) <= Len(Positions)
    /\ Flatten(sent) = SubSeq(Positions, 1, Len(Flatten(sent)))
    /\ Len(sent) - Len(progress) \in {0, 1}
    /\ pc = "await" => Len(sent) = Len(progress) + 1
    /\ pc = "await" => Len(allResults) + Len(req) = Len(Flatten(sent))
    /\ pc \in {"batch", "classify", "done"} =>
          /\ Len(sent) = Len(progress)
          /\ Len(allResults) = Len(Flatten(sent))
    /\ pc \in {"classify", "done"} => Flatten(sent) = Positions

\* three requests: 15, 15 and 1 positions
C24_Witness ==
    /\ Done
    /\ Len(sent) = 3
    /\ Len(sent[1]) = BATCH_SIZE
    /\ Len(sent[3]) = 1

\* the position the n-th returned move was played from, as the
\* classification loop sees it: the last position before it that it used
BeforePosition(n) == IF n = 1 THEN 0 ELSE Result.moves[n - 1].ply + 1

AfterPosition(n) == Result.moves[n].ply + 1

(* C28: for every returned move, the classification and the per-move        *)
(* accuracy are computed from the same two positions: the win chances of    *)
(* the position before and the position after give the classification, and  *)
(* the centipawn scores of these two positions give the accuracy, also when *)
(* positions between them were skipped.                                     *)
C28_SamePositionsForBoth ==
    Done =>
      \A n \in 1 .. Len(Result.moves) :
         LET m == Result.moves[n]
             before == ResultOf(BeforePosition(n))
             after == ResultOf(AfterPosition(n))
         IN  /\ m.classification
                  = ClassifyMove(PlayerWin(WinChanceOf(before), m.color = "w"),
                                 PlayerWin(WinChanceOf(after), m.color = "w"))
             /\ ResultScores[n] = ScoreOf(before)
             /\ ResultScores[n + 1] = ScoreOf(after)
             /\ PerMoveAccuracy(n)
                  = MoveAccuracy(ScoreOf(before), ScoreOf(after), m.color = "w")

\* a move that follows a skipped position and lost centipawns
C28_Witness ==
    /\ Done
    /\ \E n \in 1 .. Len(Result.moves) :
          /\ AfterPosition(n) - BeforePosition(n) >= 2
          /\ ~PerMoveAccuracy(n).nan
          /\ PerMoveAccuracy(n).v < 100000
          /\ Result.moves[n].classification.type = "blunder"

\* the mistake list handed to the AI by the profile breakdown
Details ==
    IF flow = "profile" /\ engineData # <<>> THEN engineData[1].details ELSE <<>>

C25_Table(loss) ==
    IF loss >= 200 THEN "blunder"
    ELSE IF loss >= 100 THEN "mistake"
    ELSE "inaccuracy"

(* C25: the profile breakdown labels a recorded move of the player Blunder *)
(* when the mover lost at least 200 centipawns, Mistake when at least 100, *)
(* and Inaccuracy when at least 50.                                        *)
C25_ClassifiedByPawnTable ==
    \A k \in 1 .. Len(Details) :
       /\ Details[k].cpLoss.v >= 50
       /\ Details[k].classification = C25_Table(Details[k].cpLoss.v)

\* the game has no PGN: the modal shows an error and starts no analysis
NoPgn == flow = "game" /\ ~games[1].hasPgn

\* the engine evaluation succeeded: evaluateGame returned for the game, or
\* for at least one game of the profile
EngineSucceeded == perGame # <<>>

(* C26: in both flows the AI request is issued once, and only after the    *)
(* engine phase has ended; it is issued also when the engine evaluation    *)
(* failed, then without engine data, and it carries engine data exactly    *)
(* when the engine evaluation succeeded.                                   *)
C26_OneRequestAfterEngine ==
    /\ Len(aiRequests) <= 1
    /\ fpc \in {"start", "engine"} => aiRequests = <<>>
    /\ (fpc \in {"ai", "done"} /\ ~NoPgn) => Len(aiRequests) = 1
    /\ aiRequests # <<>> =>
         /\ aiRequests[1].engineAnalysis = engineData
         /\ aiRequests[1].engineAnalysis # <<>> <=> EngineSucceeded

\* both flows sent their request after an engine phase that failed and
\* after one that succeeded
C26_Witness ==
    /\ fpc = "done"
    /\ Len(aiRequests) = 1
    /\ Len(games) > 0 /\ games[1].hasPgn
    /\ ~EngineSucceeded
    /\ aiRequests[1].engineAnalysis = <<>>

(* C27: the colour recorded with a mistake of the profile breakdown is the *)
(* player's colour in the game whose PGN produced the evaluation the       *)
(* mistake was found in.                                                   *)
C27_ColourOfEvaluatedGame ==
    \A k \in 1 .. Len(Details) :
       Details[k].color = PlayerColor(games[perGame[Details[k].game].pgn], username)

\* The mover's loss at ply `ply` of the game, relative to the position
\* before it, in centipawns.
LossOfPly(game, ply) ==
    LET drop == game.line[ply + 1] - game.line[ply + 2]
    IN  IF ply % 2 = 0 THEN drop ELSE 0 - drop

\* the move m of the gi-th evaluated game is in the mistake list
Recorded(gi, m) ==
    \E k \in 1 .. Len(Details) :
       /\ Details[k].game = gi
       /\ Details[k].moveNumber = m.moveNumber
       /\ Details[k].color = m.color

\* the moves of the player's colour that lost at least 50 centipawns, as
\* pairs of evaluated game and move
LosingMoves ==
    { gm \in UNION { {<<gi, n>> : n \in 1 .. Len(perGame[gi].eval.moves)} :
                        gi \in 1 .. Len(perGame) } :
        LET game == games[perGame[gm[1]].pgn]
            m == perGame[gm[1]].eval.moves[gm[2]]
        IN  /\ m.color = PlayerColor(game, username)
            /\ LossOfPly(game, m.ply) >= 50 }

(* C29: in the profile breakdown every evaluated move of the player's      *)
(* colour that lost at least 50 centipawns relative to the position before *)
(* it is in the mistake list, the first move of the game included, and     *)
(* totalMistakes counts these moves.                                       *)
C29_EveryLossRecorded ==
    (flow = "profile" /\ engineData # <<>>) =>
       /\ \A gm \in LosingMoves :
             Recorded(gm[1], perGame[gm[1]].eval.moves[gm[2]])
       /\ engineData[1].totalMistakes = Cardinality(LosingMoves)

\* every run started so far has settled
AllSettled == \A k \in 1 .. Len(runs) : runs[k].settled # ""

---------------------------------------------------------------------------
(* What holds beside the refuted statements *)

\* every failure marker delivered so far carries a non-empty error text
MarkersRecognised ==
    \A k \in 1 .. Len(allResults) :
        IsMarker(allResults[k]) => HasError(allResults[k])

\* C2, C5, C7 and C9 hold in every run whose markers are all recognised
HoldsWithRecognisedMarkers ==
    MarkersRecognised =>
        /\ C2_FailsIffStartFailed
        /\ C5_ClassifiedByTable
        /\ C7_AccuracyInRange
        /\ C9_EntryIffScored

\* every eval received so far is a whole number of centipawns
WholeCentipawns ==
    \A k \in 1 .. Len(allResults) :
        IsMarker(allResults[k]) \/ allResults[k].eval % 10 = 0

\* C6: the classification half holds always, the accuracy half when no
\* eval lies exactly between two centipawns
SymmetryBesideRoundingTies ==
    Done =>
      /\ C6_SameClassification(
             Result, GameEvaluation(MirrorAll(allResults), Plies, "b"))
      /\ WholeCentipawns => C6_PerspectiveSymmetry

\* what evaluateGame does after a failed position k >= 1: only ply k-1 is
\* skipped, and a ply is compared with the last scored position before it
RECURSIVE LastScoredBefore(_)
LastScoredBefore(k) ==
    IF k = 0 \/ ~Skipped(allResults, k + 1) THEN k ELSE LastScoredBefore(k - 1)

ComparedWithLastScored ==
    (Done /\ MarkersRecognised) =>
       /\ MovePlies = {p \in 0 .. Plies - 1 : Scored(p + 1)}
       /\ \A n \in 1 .. Len(Result.moves) :
             LET p == Result.moves[n].ply
             IN  Result.moves[n].classification
                   = ClassifyMove(
                        PlayerWin(WinChanceOf(ResultOf(LastScoredBefore(p))),
                                  p % 2 = 0),
                        PlayerWin(WinChanceOf(ResultOf(p + 1)), p % 2 = 0))

\* C18: every blunder and every mistake of the result is itemized
ItemizesEveryError ==
    Done =>
      ItemizedEntries
        = Cardinality({n \in 1 .. Len(Result.moves) :
              Result.moves[n].classification.type \in {"blunder", "mistake"}})

\* C23: within a request the delay does elapse before every later position
DelayWithinRequest ==
    (pc = "await" /\ i < Len(req) /\ attempt = 0 /\ i > 0) => pause = PositionDelay

\* The breakdown's own table: what it records is labelled by the thresholds
\* 300, 100 and 50.
ClassifiedByOwnTable ==
    \A k \in 1 .. Len(Details) :
       /\ Details[k].cpLoss.v >= 50
       /\ Details[k].classification =
            (IF Details[k].cpLoss.v >= 300 THEN "blunder"
             ELSE IF Details[k].cpLoss.v >= 100 THEN "mistake"
             ELSE "inaccuracy")

\* When every game handed to the engine was evaluated, the colour is that of
\* the evaluated game and only first moves are missing from the list.
RightWhenNoGameSkipped ==
    (flow = "profile" /\ engineData # <<>>
       /\ Len(perGame) = Len(GamesToAnalyze(games))) =>
       /\ C27_ColourOfEvaluatedGame
       /\ \A gm \in LosingMoves :
             gm[2] > 1 => Recorded(gm[1], perGame[gm[1]].eval.moves[gm[2]])

\* C30: a superseded run writes nothing: what the panel holds was written by
\* a run that was not cancelled then, the error and the loading flag are
\* those of the run started last
SupersededRunsWriteNothing ==
    /\ analysis # 0 => runs[analysis].settled = "resolved"
    /\ error # 0 =>
         /\ runs[error].settled = "rejected"
         /\ error = Len(runs)
    /\ (mounted /\ runs # <<>>) => (loading <=> runs[Len(runs)].settled = "")

====
